---- MODULE Spec2Model ----
(***************************************************************************)
(* Model of word_document_server/utils/document_utils.py.                  *)
(*                                                                         *)
(* A text (Python str) is a sequence of one-character strings.  A          *)
(* paragraph is a record [runs, style]; its text is the concatenation of   *)
(* its runs.  A document is [paragraphs, tables, styles]; a table is a     *)
(* sequence of rows, a row a sequence of cells, a cell one of paragraphs.  *)
(***************************************************************************)
EXTENDS Integers, Sequences, FiniteSets, TLC

VARIABLES
    doc,        \* the in-memory Document object handed to find_* functions
    old_text,   \* argument of find_and_replace_text
    new_text,   \* argument of find_and_replace_text
    pc,         \* position of the running call: "ready", "running", "returned", "raised"
    idx,        \* 1-based position in the traversal (body paragraphs, then cell paragraphs)
    count,      \* find_and_replace_text's local variable count
    last,       \* what replace_in_paragraph did to the paragraph visited last
    start,      \* the document as it was when the running call began
    log,        \* one entry per returned call: [start, count, doc]
    disk,       \* the file at doc_path: NoFile, Corrupt, or Stored(document)
    result      \* what the last path-based or search call returned

vars == <<doc, old_text, new_text, pc, idx, count, last, start, log, disk, result>>

(***************************************************************************)
(* Bounds of the model.                                                    *)
(***************************************************************************)
Alphabet == {"a", "b"}
MaxDocLen == 3      \* characters in a whole initial document
MaxRuns == 2        \* runs per paragraph in an initial document
MaxFindLen == 2     \* characters in old_text and in the text searched for
MaxNewLen == 1      \* characters in new_text
MaxTargetLen == 1   \* characters in target_text
MaxCalls == 2       \* consecutive calls of find_and_replace_text with the same arguments
MaxCallLen == 12    \* characters in a document find_and_replace_text is called on

\* A character lxml refuses to store in an element (NUL, control characters).
NUL == "\\x00"

(***************************************************************************)
(* Python str operations.                                                  *)
(***************************************************************************)
\* sub occurs in s at (1-based) position i
StartsAt(s, sub, i) ==
    /\ i + Len(sub) - 1 <= Len(s)
    /\ SubSeq(s, i, i + Len(sub) - 1) = sub

\* sub in s
str_contains(s, sub) ==
    \E i \in 1..(Len(s) - Len(sub) + 1) : StartsAt(s, sub, i)

RECURSIVE CountFrom(_, _, _)
CountFrom(s, sub, i) ==
    IF i + Len(sub) - 1 > Len(s) THEN 0
    ELSE IF StartsAt(s, sub, i) THEN 1 + CountFrom(s, sub, i + Len(sub))
    ELSE CountFrom(s, sub, i + 1)

\* s.count(sub): non-overlapping occurrences, scanning left to right
str_count(s, sub) ==
    IF sub = <<>> THEN Len(s) + 1 ELSE CountFrom(s, sub, 1)

RECURSIVE ReplaceFrom(_, _, _, _)
ReplaceFrom(s, old, new, i) ==
    IF i > Len(s) THEN <<>>
    ELSE IF StartsAt(s, old, i) THEN new \o ReplaceFrom(s, old, new, i + Len(old))
    ELSE <<s[i]>> \o ReplaceFrom(s, old, new, i + 1)

RECURSIVE Interleave(_, _, _)
Interleave(s, new, i) ==
    IF i > Len(s) THEN <<>> ELSE <<s[i]>> \o new \o Interleave(s, new, i + 1)

\* str_replace that replaces the first occurrence only, as s.replace(old, new, 1)
str_replace_first(s, old, new) ==
    IF old = <<>> THEN new \o s
    ELSE IF ~str_contains(s, old) THEN s
    ELSE LET i == CHOOSE i \in 1..Len(s) :
                    StartsAt(s, old, i) /\ \A h \in 1..(i - 1) : ~StartsAt(s, old, h)
         IN  SubSeq(s, 1, i - 1) \o new \o SubSeq(s, i + Len(old), Len(s))

\* s.replace(old, new); an empty old inserts new before every character and at the end
str_replace(s, old, new) ==
    IF old = <<>> THEN new \o Interleave(s, new, 1) ELSE ReplaceFrom(s, old, new, 1)

\* the concatenation of the sequences ss[i], ss[i + 1], ...
RECURSIVE FlattenFrom(_, _)
FlattenFrom(ss, i) == IF i > Len(ss) THEN <<>> ELSE ss[i] \o FlattenFrom(ss, i + 1)

Flatten(ss) == FlattenFrom(ss, 1)

(***************************************************************************)
(* The document object model (python-docx) as the module uses it.          *)
(***************************************************************************)
\* A run is [text, fmt]: fmt stands for the run's formatting (and tells runs apart).
\* The formatting of a run that add_run creates
DefaultFmt == 0

RunTexts(runs) == [k \in 1..Len(runs) |-> runs[k].text]

\* Paragraph.text
para_text(para) == Flatten(RunTexts(para.runs))

\* lxml accepts the text of an element only if it is XML compatible
XmlCompatible(t) == \A k \in 1..Len(t) : t[k] # NUL

\* (t, r, c, k) of every cell paragraph: tables, rows, cells, paragraphs in order
CellPaths(d) ==
    Flatten([t \in 1..Len(d.tables) |->
      Flatten([r \in 1..Len(d.tables[t]) |->
        Flatten([c \in 1..Len(d.tables[t][r]) |->
          [k \in 1..Len(d.tables[t][r][c]) |-> <<t, r, c, k>>]])])])

CellPara(d, p) == d.tables[p[1]][p[2]][p[3]][p[4]]

SetCellPara(d, p, para) ==
    [d EXCEPT !.tables[p[1]][p[2]][p[3]][p[4]] = para]

\* AllParagraphs with the cell paragraphs before the body paragraphs
AllParagraphsCellsFirst(d) ==
    LET paths == CellPaths(d)
    IN  [j \in 1..Len(paths) |-> CellPara(d, paths[j])] \o d.paragraphs

\* every paragraph find_and_replace_text and extract_document_text visit, in order
AllParagraphs(d) ==
    LET paths == CellPaths(d)
    IN  d.paragraphs \o [j \in 1..Len(paths) |-> CellPara(d, paths[j])]

(***************************************************************************)
(* find_and_replace_text.replace_in_paragraph                              *)
(***************************************************************************)
\* The loop over para.runs, from run k on.  st = [runs, replacements,
\* simple_replacement_done, raised].  The setter of Run.text clears the run and
\* then stores the text; lxml raises ValueError on a text it cannot store.
RECURSIVE run_local(_, _, _, _)
run_local(st, k, old, new) ==
    IF k > Len(st.runs) \/ st.raised THEN st
    ELSE IF str_contains(st.runs[k].text, old)
    THEN LET run_count == str_count(st.runs[k].text, old)
             t == str_replace(st.runs[k].text, old, new)
         IN  IF XmlCompatible(t)
             THEN run_local([st EXCEPT !.runs[k].text = t,
                                       !.replacements = @ + run_count,
                                       !.simple_replacement_done = TRUE],
                            k + 1, old, new)
             ELSE [st EXCEPT !.runs[k].text = <<>>, !.raised = TRUE]
    ELSE run_local(st, k + 1, old, new)

\* paragraph_level with the runs after the first cleared but left in the paragraph
paragraph_level_keeps_runs(runs, old, new) ==
    LET full_text == Flatten(RunTexts(runs))
        new_full_text == str_replace(full_text, old, new)
        cleared == [k \in 1..Len(runs) |-> [runs[k] EXCEPT !.text = <<>>]]
    IN  [runs |-> IF runs = <<>> THEN <<[text |-> new_full_text, fmt |-> DefaultFmt]>>
                  ELSE [cleared EXCEPT ![1].text = new_full_text],
         n |-> str_count(full_text, old), raised |-> FALSE]

\* The paragraph-level replacement: every run cleared, every run but the first
\* removed, the substituted text written to the first run (or to a new run).
paragraph_level(runs, old, new) ==
    LET full_text == Flatten(RunTexts(runs))
        new_full_text == str_replace(full_text, old, new)
        replacement_count == str_count(full_text, old)
        first == IF runs # <<>> THEN [Head(runs) EXCEPT !.text = <<>>]
                 ELSE [text |-> <<>>, fmt |-> DefaultFmt]
    IN  IF XmlCompatible(new_full_text)
        THEN [runs |-> <<[first EXCEPT !.text = new_full_text]>>,
              n |-> replacement_count, raised |-> FALSE]
        ELSE [runs |-> <<first>>, n |-> 0, raised |-> TRUE]

\* replace_in_paragraph(para): the paragraph it leaves, the number it returns (n),
\* the runs after the run-local loop (mid), whether the paragraph-level
\* replacement ran (fallback) and whether an exception left the function (raised).
replace_in_paragraph(para, old, new) ==
    LET paragraph_text == para_text(para)
        untouched == [para |-> para, n |-> 0, mid |-> para.runs,
                      fallback |-> FALSE, raised |-> FALSE]
    IN  IF ~str_contains(paragraph_text, old) THEN untouched
        ELSE IF str_count(paragraph_text, old) = 0 THEN untouched
        ELSE
        LET st == run_local([runs |-> para.runs, replacements |-> 0,
                             simple_replacement_done |-> FALSE, raised |-> FALSE],
                            1, old, new)
            after_loop == [para EXCEPT !.runs = st.runs]
        IN  IF st.raised
            THEN [para |-> after_loop, n |-> 0, mid |-> st.runs,
                  fallback |-> FALSE, raised |-> TRUE]
            ELSE IF st.simple_replacement_done /\ ~str_contains(para_text(after_loop), old)
            THEN [para |-> after_loop, n |-> st.replacements, mid |-> st.runs,
                  fallback |-> FALSE, raised |-> FALSE]
            ELSE IF str_contains(para_text(after_loop), old)
            THEN LET pl == paragraph_level(st.runs, old, new)
                 IN  [para |-> [para EXCEPT !.runs = pl.runs],
                      n |-> st.replacements + pl.n, mid |-> st.runs,
                      fallback |-> TRUE, raised |-> pl.raised]
            ELSE [para |-> after_loop, n |-> st.replacements, mid |-> st.runs,
                  fallback |-> FALSE, raised |-> FALSE]

(***************************************************************************)
(* Bounded inputs.                                                         *)
(***************************************************************************)
TextsOfLen(n) == [1..n -> Alphabet]
TextsUpTo(n) == UNION {TextsOfLen(m) : m \in 0..n}

\* the runs of text t cut after the positions in cuts, run k formatted k
RECURSIVE SplitFrom(_, _, _, _)
SplitFrom(t, cuts, from, k) ==
    IF from > Len(t) THEN <<>>
    ELSE LET ends == {c \in cuts : c >= from} \cup {Len(t)}
             e == CHOOSE c \in ends : \A c2 \in ends : c <= c2
         IN  <<[text |-> SubSeq(t, from, e), fmt |-> k]>> \o SplitFrom(t, cuts, e + 1, k + 1)

\* paragraphs of exactly n characters in at most MaxRuns non-empty runs
ParagraphsOfLen(n) ==
    {[runs |-> SplitFrom(t, cuts, 1, 1), style |-> "Normal"] :
        t \in TextsOfLen(n),
        cuts \in {c \in SUBSET (1..(n - 1)) : Cardinality(c) < MaxRuns}}

\* sequences of k paragraphs holding at most budget characters together
RECURSIVE ParaSeqs(_, _)
ParaSeqs(k, budget) ==
    IF k = 0 THEN {<<>>}
    ELSE UNION {LET heads == ParagraphsOfLen(n)
                    tails == ParaSeqs(k - 1, budget - n)
                IN  {<<p>> \o rest : p \in heads, rest \in tails} :
                n \in 0..budget}

\* the paragraph styles an initial document defines
DocStyles == {"Normal", "Heading 1"}

\* A shape is [body, tables]: the number of body paragraphs and, per table,
\* [rows, cols, paras] with paras paragraphs in every cell.
TableSize(tb) == tb.rows * tb.cols * tb.paras

RECURSIVE SizeBefore(_, _)
SizeBefore(tabs, t) ==
    IF t = 1 THEN 0 ELSE SizeBefore(tabs, t - 1) + TableSize(tabs[t - 1])

ShapeSize(sh) == sh.body + SizeBefore(sh.tables, Len(sh.tables) + 1)

\* the document of shape sh whose paragraphs are ps, in reading order
BuildDoc(sh, ps) ==
    [paragraphs |-> SubSeq(ps, 1, sh.body),
     tables |->
        [t \in 1..Len(sh.tables) |->
          [r \in 1..sh.tables[t].rows |->
            [c \in 1..sh.tables[t].cols |->
              [k \in 1..sh.tables[t].paras |->
                ps[sh.body + SizeBefore(sh.tables, t)
                   + ((r - 1) * sh.tables[t].cols + (c - 1)) * sh.tables[t].paras + k]]]]],
     styles |-> DocStyles]

DocsOfShape(sh) == {BuildDoc(sh, ps) : ps \in ParaSeqs(ShapeSize(sh), MaxDocLen)}

DocsOfShapes(shapes) == UNION {DocsOfShape(sh) : sh \in shapes}

\* a body paragraph followed by a table of one cell holding one paragraph
ReplaceShapes == {[body |-> 1, tables |-> <<[rows |-> 1, cols |-> 1, paras |-> 1]>>]}

NoStep == [kind |-> "none"]
NoResult == [fn |-> "none"]
\* The file at doc_path: none, one that is no readable package, or a stored document
NoFile == [kind |-> "missing"]
Corrupt == [kind |-> "corrupt"]
Stored(d) == [kind |-> "docx", doc |-> d]

(***************************************************************************)
(* find_and_replace_text, one paragraph visited per step.                  *)
(***************************************************************************)
InitReplace ==
    /\ doc \in DocsOfShapes(ReplaceShapes)
    /\ old_text \in TextsUpTo(MaxFindLen)
    /\ new_text \in TextsUpTo(MaxNewLen) \cup {<<NUL>>}
    /\ pc = "ready"
    /\ idx = 0
    /\ count = 0
    /\ last = NoStep
    /\ start = doc
    /\ log = <<>>
    /\ disk = NoFile
    /\ result = NoResult

DocLen(d) == Len(Flatten([j \in 1..Len(AllParagraphs(d)) |-> para_text(AllParagraphs(d)[j])]))

\* the caller calls find_and_replace_text(doc, old_text, new_text), and again
\* with the same arguments after a call that replaced something
find_and_replace_text ==
    /\ \/ pc = "ready"
       \/ pc = "returned" /\ count > 0
    /\ Len(log) < MaxCalls
    /\ DocLen(doc) <= MaxCallLen
    /\ pc' = "running"
    /\ idx' = 1
    /\ count' = 0
    /\ last' = NoStep
    /\ start' = doc
    /\ UNCHANGED <<doc, old_text, new_text, log, disk, result>>

Visit(where, before, r) ==
    /\ last' = [kind |-> where, before |-> before, mid |-> r.mid, after |-> r.para,
                n |-> r.n, fallback |-> r.fallback, raised |-> r.raised]
    /\ pc' = IF r.raised THEN "raised" ELSE "running"
    /\ count' = count + r.n
    /\ idx' = idx + 1

\* for para in doc.paragraphs: count += replace_in_paragraph(para)
ReplaceInBodyParagraph ==
    /\ pc = "running"
    /\ idx <= Len(doc.paragraphs)
    /\ LET r == replace_in_paragraph(doc.paragraphs[idx], old_text, new_text)
       IN  /\ doc' = [doc EXCEPT !.paragraphs[idx] = r.para]
           /\ Visit("body", doc.paragraphs[idx], r)
    /\ UNCHANGED <<old_text, new_text, start, log, disk, result>>

\* for table, row, cell, para: count += replace_in_paragraph(para)
ReplaceInCellParagraph ==
    /\ pc = "running"
    /\ idx > Len(doc.paragraphs)
    /\ idx - Len(doc.paragraphs) <= Len(CellPaths(doc))
    /\ LET p == CellPaths(doc)[idx - Len(doc.paragraphs)]
           r == replace_in_paragraph(CellPara(doc, p), old_text, new_text)
       IN  /\ doc' = SetCellPara(doc, p, r.para)
           /\ Visit("cell", CellPara(doc, p), r)
    /\ UNCHANGED <<old_text, new_text, start, log, disk, result>>

\* return count
ReturnCount ==
    /\ pc = "running"
    /\ idx > Len(doc.paragraphs) + Len(CellPaths(doc))
    /\ pc' = "returned"
    /\ log' = Append(log, [start |-> start, count |-> count, doc |-> doc])
    /\ last' = NoStep
    /\ UNCHANGED <<doc, old_text, new_text, idx, count, start, disk, result>>

NextReplace ==
    \/ find_and_replace_text
    \/ ReplaceInBodyParagraph
    \/ ReplaceInCellParagraph
    \/ ReturnCount

SpecReplace == InitReplace /\ [][NextReplace]_vars

(***************************************************************************)
(* find_paragraph_by_text                                                  *)
(***************************************************************************)
\* matching_paragraphs with the exact comparison replaced by containment
RECURSIVE matching_paragraphs_partial(_, _, _, _)
matching_paragraphs_partial(paras, text, partial_match, i) ==
    IF i > Len(paras) THEN <<>>
    ELSE IF str_contains(para_text(paras[i]), text)
    THEN <<i - 1>> \o matching_paragraphs_partial(paras, text, partial_match, i + 1)
    ELSE matching_paragraphs_partial(paras, text, partial_match, i + 1)

\* the loop over enumerate(doc.paragraphs), from paragraph i on
RECURSIVE matching_paragraphs(_, _, _, _)
matching_paragraphs(paras, text, partial_match, i) ==
    IF i > Len(paras) THEN <<>>
    ELSE IF partial_match /\ str_contains(para_text(paras[i]), text)
    THEN <<i - 1>> \o matching_paragraphs(paras, text, partial_match, i + 1)
    ELSE IF ~partial_match /\ para_text(paras[i]) = text
    THEN <<i - 1>> \o matching_paragraphs(paras, text, partial_match, i + 1)
    ELSE matching_paragraphs(paras, text, partial_match, i + 1)

\* three body paragraphs, no table
SearchShapes == {[body |-> 3, tables |-> <<>>]}

InitSearch ==
    /\ doc \in DocsOfShapes(SearchShapes)
    /\ old_text = <<>>
    /\ new_text = <<>>
    /\ pc = "ready"
    /\ idx = 0
    /\ count = 0
    /\ last = NoStep
    /\ start = doc
    /\ log = <<>>
    /\ disk = NoFile
    /\ result = NoResult

\* the caller calls find_paragraph_by_text(doc, text, partial_match); indices are 0-based
find_paragraph_by_text(text, partial_match) ==
    /\ result = NoResult
    /\ result' = [fn |-> "find_paragraph_by_text", text |-> text,
                  partial_match |-> partial_match,
                  value |-> matching_paragraphs(doc.paragraphs, text, partial_match, 1)]
    /\ UNCHANGED <<doc, old_text, new_text, pc, idx, count, last, start, log, disk>>

NextSearch ==
    \E text \in TextsUpTo(MaxFindLen), partial_match \in BOOLEAN :
        find_paragraph_by_text(text, partial_match)

SpecSearch == InitSearch /\ [][NextSearch]_vars

(***************************************************************************)
(* extract_document_text                                                   *)
(***************************************************************************)
NL == "\\n"

RECURSIVE JoinFrom(_, _)
JoinFrom(texts, i) ==
    IF i > Len(texts) THEN <<>>
    ELSE IF i = Len(texts) THEN texts[i]
    ELSE texts[i] \o <<NL>> \o JoinFrom(texts, i + 1)

\* "\n".join(text)
join_lines(texts) == JoinFrom(texts, 1)

\* os.path.exists(doc_path)
path_exists(file) == file.kind # "missing"

\* Document(doc_path) raises on a file that is no package
opens(file) == file.kind = "docx"

extract_text(file) ==
    IF ~path_exists(file) THEN [status |-> "missing", value |-> <<>>]
    ELSE IF ~opens(file) THEN [status |-> "failed", value |-> <<>>]
    ELSE LET paras == AllParagraphs(file.doc)
         IN  [status |-> "ok",
              value |-> join_lines([j \in 1..Len(paras) |-> para_text(paras[j])])]

\* two body paragraphs and a 2 x 2 table; a body paragraph, a 1 x 2 table
\* with two paragraphs per cell and a 1 x 1 table; no paragraph at all
ExtractShapes ==
    {[body |-> 2, tables |-> <<[rows |-> 2, cols |-> 2, paras |-> 1]>>],
     [body |-> 1, tables |-> <<[rows |-> 1, cols |-> 2, paras |-> 2],
                               [rows |-> 1, cols |-> 1, paras |-> 1]>>],
     [body |-> 0, tables |-> <<>>]}

InitExtract ==
    /\ disk \in {Stored(d) : d \in DocsOfShapes(ExtractShapes)} \cup {NoFile, Corrupt}
    /\ doc = [paragraphs |-> <<>>, tables |-> <<>>, styles |-> DocStyles]
    /\ old_text = <<>>
    /\ new_text = <<>>
    /\ pc = "ready"
    /\ idx = 0
    /\ count = 0
    /\ last = NoStep
    /\ start = doc
    /\ log = <<>>
    /\ result = NoResult

\* the caller calls extract_document_text(doc_path)
extract_document_text ==
    /\ result = NoResult
    /\ LET r == extract_text(disk)
       IN  result' = [fn |-> "extract_document_text", before |-> disk,
                      status |-> r.status, value |-> r.value]
    /\ UNCHANGED <<doc, old_text, new_text, pc, idx, count, last, start, log, disk>>

NextExtract == extract_document_text

SpecExtract == InitExtract /\ [][NextExtract]_vars

(***************************************************************************)
(* insert_header_near_text and insert_line_or_paragraph_near_text          *)
(***************************************************************************)
\* A style argument is None, a str (a style name) or a style object (para.style);
\* the style of a paragraph of the document is kept as the name of its style.
None == [kind |-> "None"]
Str(s) == [kind |-> "str", value |-> s]
StyleOf(para) == [kind |-> "style", value |-> para.style]

\* the truth value of a style argument (`if line_style`): None and '' are falsy
truthy(v) == v # None /\ v # Str("")

\* first_match without the break: the last paragraph that contains target_text
RECURSIVE last_match(_, _, _)
last_match(paras, target_text, i) ==
    IF i > Len(paras) THEN 0
    ELSE LET later == last_match(paras, target_text, i + 1)
         IN  IF later # 0 THEN later
             ELSE IF str_contains(para_text(paras[i]), target_text) THEN i
             ELSE 0

\* the index of the first paragraph whose text contains target_text, 0 if none
RECURSIVE first_match(_, _, _)
first_match(paras, target_text, i) ==
    IF i > Len(paras) THEN 0
    ELSE IF str_contains(para_text(paras[i]), target_text) THEN i
    ELSE first_match(paras, target_text, i + 1)

\* doc.add_paragraph(text, style): the paragraph is appended to the body, gets a
\* run if text is not empty, then its style unless style is None; storing a
\* text that is not XML compatible raises ValueError, a style name the document
\* lacks (the empty name included) raises KeyError, a style object is taken as is.
add_paragraph(d, text, style) ==
    LET stored == XmlCompatible(text)
        run == [text |-> IF stored THEN text ELSE <<>>, fmt |-> DefaultFmt]
        known == style = None \/ style.kind = "style" \/ style.value \in d.styles
        styled == stored /\ known
        new_para == [runs |-> IF text = <<>> THEN <<>> ELSE <<run>>,
                     style |-> IF styled /\ style # None THEN style.value
                               ELSE "Normal"]
    IN  [doc |-> [d EXCEPT !.paragraphs = Append(@, new_para)],
         raised |-> ~styled]

\* para._element.addprevious / addnext(new_para._element): the paragraph added
\* last moves next to paragraph i
move_new_paragraph(paras, i, position) ==
    LET new_para == paras[Len(paras)]
        rest == SubSeq(paras, 1, Len(paras) - 1)
    IN  IF position = "before"
        THEN SubSeq(rest, 1, i - 1) \o <<new_para>> \o SubSeq(rest, i, Len(rest))
        ELSE SubSeq(rest, 1, i) \o <<new_para>> \o SubSeq(rest, i + 1, Len(rest))

\* doc.save(doc_path) opens the target for writing, which truncates it, and then
\* writes the package: it completes ("saved"), raises before the target is
\* opened ("refused"), or raises after ("torn").
SaveOutcomes == {"saved", "refused", "torn"}

save(file, d, outcome) ==
    IF outcome = "saved" THEN Stored(d)
    ELSE IF outcome = "refused" THEN file
    ELSE Corrupt

\* the body shared by both functions; with inherit the new paragraph gets the
\* style of the paragraph it goes next to, otherwise the style given
insert_near_text(file, target_text, text, position, style, inherit, outcome) ==
    IF ~path_exists(file) THEN [status |-> "missing", file |-> file]
    ELSE IF ~opens(file) THEN [status |-> "failed", file |-> file]
    ELSE LET d == file.doc
             i == first_match(d.paragraphs, target_text, 1)
         IN  IF i = 0 THEN [status |-> "not_found", file |-> file]
             ELSE LET added == add_paragraph(d, text,
                                   IF inherit THEN StyleOf(d.paragraphs[i]) ELSE style)
                      moved == [added.doc EXCEPT
                                  !.paragraphs = move_new_paragraph(@, i, position)]
                  IN  IF added.raised THEN [status |-> "failed", file |-> file]
                      ELSE IF outcome = "saved"
                      THEN [status |-> "success", file |-> save(file, moved, outcome)]
                      ELSE [status |-> "failed", file |-> save(file, moved, outcome)]

\* documents of no, one and two body paragraphs; the second paragraph is a heading
InsertShapes == {[body |-> n, tables |-> <<>>] : n \in {0, 1, 2}}

Restyled(d) ==
    [d EXCEPT !.paragraphs =
        [j \in 1..Len(d.paragraphs) |->
            [d.paragraphs[j] EXCEPT !.style = IF j = 2 THEN "Heading 1" ELSE "Normal"]]]

InsertTexts == {<<>>, <<"b">>, <<NUL>>}
Positions == {"before", "after", "above"}
HeaderStyles == {Str("Heading 1"), Str(""), None}
LineStyles == {None, Str(""), Str("Heading 1"), Str("Title")}

InitInsert ==
    /\ disk \in {Stored(Restyled(d)) : d \in DocsOfShapes(InsertShapes)} \cup {NoFile, Corrupt}
    /\ doc = [paragraphs |-> <<>>, tables |-> <<>>, styles |-> DocStyles]
    /\ old_text = <<>>
    /\ new_text = <<>>
    /\ pc = "ready"
    /\ idx = 0
    /\ count = 0
    /\ last = NoStep
    /\ start = doc
    /\ log = <<>>
    /\ result = NoResult

Inserted(fn, r, target_text, text, position, style) ==
    /\ disk' = r.file
    /\ result' = [fn |-> fn, status |-> r.status, before |-> disk,
                  target_text |-> target_text, text |-> text,
                  position |-> position, style |-> style]
    /\ UNCHANGED <<doc, old_text, new_text, pc, idx, count, last, start, log>>

\* insert_header_near_text(doc_path, target_text, header_title, position, header_style)
insert_header_near_text(target_text, header_title, position, header_style, outcome) ==
    /\ result = NoResult
    /\ Inserted("insert_header_near_text",
                insert_near_text(disk, target_text, header_title, position,
                                 header_style, FALSE, outcome),
                target_text, header_title, position, header_style)

\* insert_line_or_paragraph_near_text(doc_path, target_text, line_text, position, line_style)
insert_line_or_paragraph_near_text(target_text, line_text, position, line_style, outcome) ==
    /\ result = NoResult
    /\ Inserted("insert_line_or_paragraph_near_text",
                insert_near_text(disk, target_text, line_text, position,
                                 line_style, ~truthy(line_style), outcome),
                target_text, line_text, position, line_style)

NextInsert ==
    \E target_text \in TextsUpTo(MaxTargetLen), text \in InsertTexts,
       position \in Positions, outcome \in SaveOutcomes :
        \/ \E header_style \in HeaderStyles :
              insert_header_near_text(target_text, text, position, header_style, outcome)
        \/ \E line_style \in LineStyles :
              insert_line_or_paragraph_near_text(target_text, text, position, line_style, outcome)

SpecInsert == InitInsert /\ [][NextInsert]_vars

(***************************************************************************)
(* Properties of find_and_replace_text.                                    *)
(***************************************************************************)
RECURSIVE SumFrom(_, _)
SumFrom(ns, i) == IF i > Len(ns) THEN 0 ELSE ns[i] + SumFrom(ns, i + 1)

SumSeq(ns) == SumFrom(ns, 1)

ParaTexts(d) == [j \in 1..Len(AllParagraphs(d)) |-> para_text(AllParagraphs(d)[j])]

Chars(t) == {t[k] : k \in 1..Len(t)}

Visited == last.kind \in {"body", "cell"}

MidText == Flatten(RunTexts(last.mid))

\* the run (by index) each character position of the paragraph's text lies in
RunOfPos(runs, i) ==
    CHOOSE k \in 1..Len(runs) :
        /\ Len(Flatten(RunTexts(SubSeq(runs, 1, k - 1)))) < i
        /\ i <= Len(Flatten(RunTexts(SubSeq(runs, 1, k))))

\* every occurrence of old in the paragraph's text lies inside one run
NoStraddle(para, old) ==
    \A i \in 1..Len(para_text(para)) :
        StartsAt(para_text(para), old, i)
            => RunOfPos(para.runs, i) = RunOfPos(para.runs, i + Len(old) - 1)

\* C1 (as claimed): after a call with a non-empty old_text every paragraph's text
\* is its text before the call with each non-overlapping occurrence of old_text,
\* left to right, replaced once by new_text, however the text is split into runs.
C1_TextIsReplacedOnce ==
    \A j \in 1..Len(log) :
        old_text # <<>> =>
            ParaTexts(log[j].doc) =
                [i \in 1..Len(ParaTexts(log[j].start)) |->
                    str_replace(ParaTexts(log[j].start)[i], old_text, new_text)]

\* C2 (as claimed): the count a call with a non-empty old_text returns is the sum,
\* over body and cell paragraphs, of the non-overlapping occurrences of old_text
\* in the paragraph's text before the call.
C2_CountIsOccurrences ==
    \A j \in 1..Len(log) :
        old_text # <<>> =>
            log[j].count =
                SumSeq([i \in 1..Len(ParaTexts(log[j].start)) |->
                    str_count(ParaTexts(log[j].start)[i], old_text)])

\* C3 (as claimed): a call that follows a call with the same arguments that
\* returned a count above 0 returns 0 and leaves the document as it was.
C3_SecondCallReturnsZero ==
    \A j \in 1..(Len(log) - 1) :
        log[j].count > 0 => log[j + 1].count = 0 /\ log[j + 1].doc = log[j].doc

NoneLeft(d) == \A i \in 1..Len(ParaTexts(d)) : ~str_contains(ParaTexts(d)[i], old_text)

\* C3 (amended): if the first call returned a count above 0 and left no occurrence
\* of old_text in any paragraph, the second call returns 0 and leaves the document
\* as it was; and a call leaves no occurrence whenever old_text and new_text are
\* non-empty and share no character.
C3_IdempotentWhenNoneLeft ==
    /\ \A j \in 1..(Len(log) - 1) :
          (log[j].count > 0 /\ NoneLeft(log[j].doc))
              => (log[j + 1].count = 0 /\ log[j + 1].doc = log[j].doc)
    /\ \A j \in 1..Len(log) :
          (old_text # <<>> /\ new_text # <<>> /\ Chars(old_text) \cap Chars(new_text) = {})
              => NoneLeft(log[j].doc)

\* a second call returned 0 after a first call that replaced something in both paragraphs
C3_Witness ==
    /\ Len(log) = 2
    /\ log[1].count > 1
    /\ NoneLeft(log[1].doc)
    /\ log[2].count = 0
    /\ log[1].doc # log[1].start

\* C4 (as claimed): a paragraph none of whose occurrences of old_text straddles a
\* run boundary keeps its number of runs, and every run that did not contain
\* old_text keeps its text.
C4_RunsPreserved ==
    (Visited /\ ~last.raised /\ old_text # <<>> /\ NoStraddle(last.before, old_text))
        => /\ Len(last.after.runs) = Len(last.before.runs)
           /\ \A k \in 1..Len(last.before.runs) :
                 ~str_contains(last.before.runs[k].text, old_text)
                     => last.after.runs[k] = last.before.runs[k]

\* C7 (as claimed): no exception leaves a public function.
C7_NoExceptionEscapes == pc # "raised"

\* C10: when old_text still occurs in the paragraph's text after the run-local
\* step, the paragraph is left with exactly one run, the former first run (or a
\* new run if it had none), holding that text with every occurrence of old_text
\* replaced by new_text; the paragraph's text is the concatenation of its runs.
C10_FallbackCollapses ==
    (Visited /\ ~last.raised /\ str_contains(MidText, old_text))
        => /\ Len(last.after.runs) = 1
           /\ last.after.runs[1].text = str_replace(MidText, old_text, new_text)
           /\ last.after.runs[1].fmt =
                 (IF last.before.runs = <<>> THEN DefaultFmt ELSE last.before.runs[1].fmt)
           /\ para_text(last.after) = str_replace(MidText, old_text, new_text)
           /\ AllParagraphs(doc)[idx - 1] = last.after

\* the fallback collapsed a paragraph of two runs after the run-local step changed one
C10_Witness ==
    /\ Visited
    /\ last.fallback
    /\ ~last.raised
    /\ Len(last.before.runs) = 2
    /\ last.mid # last.before.runs
    /\ Len(last.after.runs) = 1

(***************************************************************************)
(* Properties of find_paragraph_by_text and extract_document_text.         *)
(***************************************************************************)
Searched == result.fn = "find_paragraph_by_text"

Matches(k) ==
    IF result.partial_match
    THEN str_contains(para_text(doc.paragraphs[k + 1]), result.text)
    ELSE para_text(doc.paragraphs[k + 1]) = result.text

\* C9: find_paragraph_by_text returns, in strictly increasing order, exactly the
\* (0-based) indices of the body paragraphs whose text contains text
\* (partial_match) or equals text (otherwise), the empty list when none matches,
\* and leaves the document as it was.
C9_IndicesOfMatches ==
    Searched =>
        /\ \A a, b \in 1..Len(result.value) : a < b => result.value[a] < result.value[b]
        /\ {result.value[a] : a \in 1..Len(result.value)}
              = {k \in 0..(Len(doc.paragraphs) - 1) : Matches(k)}
        /\ doc = start

\* a partial search found the first and the third paragraph and not the second
C9_Witness ==
    /\ Searched
    /\ result.partial_match
    /\ result.value = <<0, 2>>
    /\ para_text(doc.paragraphs[1]) # result.text

Extracted == result.fn = "extract_document_text"

\* the lines of a text: the pieces between its line feeds
RECURSIVE LinesFrom(_, _, _)
LinesFrom(t, i, cur) ==
    IF i > Len(t) THEN <<cur>>
    ELSE IF t[i] = NL THEN <<cur>> \o LinesFrom(t, i + 1, <<>>)
    ELSE LinesFrom(t, i + 1, Append(cur, t[i]))

LinesOf(t) == LinesFrom(t, 1, <<>>)

\* (t, r, c, k) of every cell paragraph of the document
CellIds(d) ==
    UNION {UNION {UNION {{<<t, r, c, k>> : k \in 1..Len(d.tables[t][r][c])} :
                            c \in 1..Len(d.tables[t][r])} :
                     r \in 1..Len(d.tables[t])} :
              t \in 1..Len(d.tables)}

\* the cell paragraphs that come before (t, r, c, k): tables, rows, cells and
\* paragraphs in order
CellsBefore(d, t, r, c, k) ==
    {q \in CellIds(d) :
        \/ q[1] < t
        \/ q[1] = t /\ q[2] < r
        \/ q[1] = t /\ q[2] = r /\ q[3] < c
        \/ q[1] = t /\ q[2] = r /\ q[3] = c /\ q[4] < k}

\* C8: on a document that opens, extract_document_text returns one line per
\* paragraph joined by line feeds: the body paragraphs in order, then the cell
\* paragraphs, tables, rows, cells and paragraphs in order; an empty paragraph
\* gives an empty line.
C8_BodyThenCells ==
    (Extracted /\ opens(result.before)) =>
        LET d == result.before.doc
            lines == LinesOf(result.value)
            nb == Len(d.paragraphs)
        IN  /\ result.status = "ok"
            /\ disk = result.before
            /\ IF nb = 0 /\ d.tables = <<>> THEN result.value = <<>>
               ELSE /\ \A i \in 1..nb : lines[i] = para_text(d.paragraphs[i])
                    /\ \A t \in 1..Len(d.tables) :
                       \A r \in 1..Len(d.tables[t]) :
                       \A c \in 1..Len(d.tables[t][r]) :
                       \A k \in 1..Len(d.tables[t][r][c]) :
                          lines[nb + Cardinality(CellsBefore(d, t, r, c, k)) + 1]
                              = para_text(d.tables[t][r][c][k])
                    /\ Len(lines) = nb + Cardinality(CellsBefore(d, Len(d.tables) + 1, 1, 1, 1))

\* the text of a document whose table texts differ from its body texts, with an
\* empty body paragraph
C8_Witness ==
    /\ Extracted
    /\ result.status = "ok"
    /\ Len(result.before.doc.paragraphs) = 2
    /\ para_text(result.before.doc.paragraphs[1]) = <<>>
    /\ para_text(result.before.doc.paragraphs[2]) = <<"a">>
    /\ result.value = <<NL, "a", NL, "b", NL, NL, "b", NL>>

(***************************************************************************)
(* Properties of the two insert functions.                                 *)
(***************************************************************************)
InsertCalled ==
    result.fn \in {"insert_header_near_text", "insert_line_or_paragraph_near_text"}

\* some body paragraph of the stored document contains target_text
TargetFound ==
    /\ opens(result.before)
    /\ \E i \in 1..Len(result.before.doc.paragraphs) :
          str_contains(para_text(result.before.doc.paragraphs[i]), result.target_text)

\* C5 (as claimed): the file changes only when the call returns the success
\* status; after the missing-file, the not-found or a "Failed to insert" message
\* the stored document is what it was before the call.
C5_NoSaveUnlessSuccess ==
    InsertCalled =>
        /\ result.status = "success" => (opens(disk) /\ disk # result.before)
        /\ result.status # "success" => disk = result.before

\* the new paragraph is where the claim puts it and the others are as they were
PlacedNearFirstMatch ==
    LET before == result.before.doc.paragraphs
        after == disk.doc.paragraphs
        i == CHOOSE i \in 1..Len(before) :
                /\ str_contains(para_text(before[i]), result.target_text)
                /\ \A h \in 1..(i - 1) :
                      ~str_contains(para_text(before[h]), result.target_text)
        j == IF result.position = "before" THEN i ELSE i + 1
    IN  /\ opens(disk)
        /\ Len(after) = Len(before) + 1
        /\ para_text(after[j]) = result.text
        /\ \A h \in 1..(j - 1) : after[h] = before[h]
        /\ \A h \in j..Len(before) : after[h + 1] = before[h]
        /\ disk.doc.tables = result.before.doc.tables

\* C6 (as claimed): when a body paragraph contains target_text, the stored
\* document has one more paragraph: the new one right before the first match
\* (position 'before') or right after it (otherwise), the others as they were.
C6_OneMoreParagraph ==
    (InsertCalled /\ TargetFound) => PlacedNearFirstMatch

\* C6 (amended): the same, when the call returns the success status.
C6_OneMoreParagraphOnSuccess ==
    (InsertCalled /\ TargetFound /\ result.status = "success") => PlacedNearFirstMatch

\* a header went before the second of two paragraphs, both of which contain
\* target_text after the first
C6_Witness ==
    /\ result.fn = "insert_header_near_text"
    /\ result.status = "success"
    /\ result.position = "after"
    /\ result.target_text = <<"a">>
    /\ Len(result.before.doc.paragraphs) = 2
    /\ \A i \in 1..2 : str_contains(para_text(result.before.doc.paragraphs[i]), <<"a">>)
    /\ Len(disk.doc.paragraphs) = 3
    /\ para_text(disk.doc.paragraphs[2]) = <<"b">>

====
